---------------------------- MODULE Spec2Model ----------------------------
(***************************************************************************)
(* A model of src/app.py: one call of PDFTOCExtractor.extract_from_file,   *)
(* with the five extraction strategies it arbitrates between.              *)
(*                                                                         *)
(* Text is a sequence of one-character strings.  Confidences are exact     *)
(* fixed-point numbers in units of 1/One (the rounding of binary floats is *)
(* not modelled).  The bbox field of TOCEntry is not modelled.             *)
(***************************************************************************)
EXTENDS Integers, Sequences, FiniteSets, TLC

(***************************************************************************)
(* Bounds of the model.                                                    *)
(***************************************************************************)
\* the longest list fitz's doc.get_toc() hands over
MaxToc == 2
\* the most nodes directly below the root of PyPDF2's reader.outline
MaxOutline == 1
\* the most pages pdfplumber's pdf.pages holds
MaxPages == 3
\* the words handed to one call of _group_words_into_lines
MaxWords == 4
\* the words of a line handed to one call of _parse_toc_line
MaxLineWords == 3
\* the nodes at the top of an outline handed to process_outline_item
MaxItems == 2
\* the lines of a page handed to the page loop of the layout strategy
MaxLines == 4
\* the process_char calls made on one BPPProcessor
MaxChars == 3

(***************************************************************************)
(* Fixed-point confidences: One stands for 1.0.  27720 = lcm(1..12) makes  *)
(* the average of up to 12 confidences that are multiples of 0.001 exact.  *)
(***************************************************************************)
One == 1000 * 27720
Tenth(n) == (n * One) \div 10
Min(a, b) == IF a <= b THEN a ELSE b
Max(a, b) == IF a >= b THEN a ELSE b

\* Python's None where an integer is expected (page_number, prev_x0)
NoneInt == 0 - 1
\* Python's None where a TOCResult is expected
None == [kind |-> "None"]

(***************************************************************************)
(* Strings.                                                                *)
(***************************************************************************)
UpperLetters == <<"A","B","C","D","E","F","G","H","I","J","K","L","M",
                  "N","O","P","Q","R","S","T","U","V","W","X","Y","Z">>
LowerLetters == <<"a","b","c","d","e","f","g","h","i","j","k","l","m",
                  "n","o","p","q","r","s","t","u","v","w","x","y","z">>
Digits == <<"0","1","2","3","4","5","6","7","8","9">>
Range(s) == {s[i] : i \in DOMAIN s}

\* str.isupper() of one character
IsUpper(c) == c \in Range(UpperLetters)
\* \d of the re module, on ASCII
IsDigit(c) == c \in Range(Digits)
\* \s of the re module and the characters str.strip() removes
IsSpace(c) == c \in {" ", "\n", "\t"}
\* the class [\.·] of the leader patterns
IsLeader(c) == c \in {".", "·"}

\* str.lower() of one character
LowerChar(c) ==
    IF IsUpper(c)
    THEN LowerLetters[CHOOSE i \in DOMAIN UpperLetters : UpperLetters[i] = c]
    ELSE c
\* str.lower()
Lower(s) == [i \in DOMAIN s |-> LowerChar(s[i])]

\* s[i:j] of Python with 0 <= i, j <= len(s), written with 1-based TLA+ indices:
\* the characters at Python positions i .. j-1
Slice(s, i, j) == IF j <= i THEN <<>> ELSE SubSeq(s, i + 1, j)

\* whether sub occurs in s at Python position i
OccursAt(s, sub, i) ==
    /\ i >= 0
    /\ i + Len(sub) <= Len(s)
    /\ \A k \in 1..Len(sub) : s[i + k] = sub[k]
\* sub in s
Contains(s, sub) == \E i \in 0..Len(s) : OccursAt(s, sub, i)
\* s.rfind(sub): the highest position where sub occurs, -1 when there is none
RFind(s, sub) ==
    LET hits == {i \in 0..Len(s) : OccursAt(s, sub, i)}
    IN  IF hits = {} THEN 0 - 1 ELSE CHOOSE i \in hits : \A j \in hits : j <= i
\* s.endswith(sub)
EndsWith(s, sub) == Len(sub) <= Len(s) /\ OccursAt(s, sub, Len(s) - Len(sub))

\* s.strip()
Strip(s) ==
    LET keep == {i \in DOMAIN s : ~IsSpace(s[i])}
    IN  IF keep = {} THEN <<>>
        ELSE LET lo == CHOOSE i \in keep : \A j \in keep : i <= j
                 hi == CHOOSE i \in keep : \A j \in keep : j <= i
             IN  SubSeq(s, lo, hi)

\* ' '.join(parts)
RECURSIVE JoinSpace(_)
JoinSpace(parts) ==
    IF Len(parts) = 0 THEN <<>>
    ELSE IF Len(parts) = 1 THEN parts[1]
    ELSE parts[1] \o <<" ">> \o JoinSpace(Tail(parts))

\* int(digits) for a non-empty run of at most nine digits
RECURSIVE ParseInt(_)
ParseInt(ds) ==
    IF Len(ds) = 0 THEN 0
    ELSE 10 * ParseInt(SubSeq(ds, 1, Len(ds) - 1))
         + (CHOOSE i \in DOMAIN Digits : Digits[i] = ds[Len(ds)]) - 1
\* str(n) for n >= 0
RECURSIVE IntToStr(_)
IntToStr(n) ==
    IF n < 10 THEN <<Digits[n + 1]>>
    ELSE IntToStr(n \div 10) \o <<Digits[(n % 10) + 1]>>


\* s[:j] of Python, j possibly negative
PrefixTo(s, j) ==
    IF j >= 0 THEN Slice(s, 0, Min(j, Len(s)))
    ELSE Slice(s, 0, Max(Len(s) + j, 0))

\* s.replace(sub, '') for a non-empty sub: occurrences found left to right,
\* without overlap
RECURSIVE RemoveAll(_, _)
RemoveAll(s, sub) ==
    IF Len(s) = 0 THEN <<>>
    ELSE IF OccursAt(s, sub, 0)
    THEN RemoveAll(Slice(s, Len(sub), Len(s)), sub)
    ELSE <<s[1]>> \o RemoveAll(Tail(s), sub)

\* re.search(r'(\d+)\s*$', text): the digits of group(1), <<>> when there is no
\* match.  The leftmost match starts at the head of the run of digits that only
\* whitespace separates from the end of the text.
TrailingNumber(text) ==
    LET solid == {i \in DOMAIN text : ~IsSpace(text[i])}
    IN  IF solid = {} THEN <<>>
        ELSE LET e == CHOOSE i \in solid : \A j \in solid : j <= i
                 starts == {b \in 1..e : \A k \in b..e : IsDigit(text[k])}
             IN  IF starts = {} THEN <<>>
                 ELSE SubSeq(text, CHOOSE b \in starts : \A c \in starts : b <= c, e)

\* re.sub(r'[\.·]{2,}', '', s): every maximal run of two or more leader
\* characters is removed, a leader character standing alone stays
RECURSIVE DropLeaderRuns(_, _)
DropLeaderRuns(s, i) ==
    IF i > Len(s) THEN <<>>
    ELSE LET inRun == /\ IsLeader(s[i])
                      /\ \/ (i > 1 /\ IsLeader(s[i - 1]))
                         \/ (i < Len(s) /\ IsLeader(s[i + 1]))
         IN  (IF inRun THEN <<>> ELSE <<s[i]>>) \o DropLeaderRuns(s, i + 1)
RemoveLeaders(s) == DropLeaderRuns(s, 1)

(***************************************************************************)
(* TOCEntry and TOCResult.                                                 *)
(***************************************************************************)
TOCEntry(title, page_number, level, confidence, raw_text, entry_type) ==
    [title |-> title, page_number |-> page_number, level |-> level,
     confidence |-> confidence, raw_text |-> raw_text, entry_type |-> entry_type]

TOCResult(entries, method_used, confidence_score, metadata) ==
    [kind |-> "TOCResult", entries |-> entries, method_used |-> method_used,
     confidence_score |-> confidence_score, metadata |-> metadata]

RECURSIVE SumConfidence(_)
SumConfidence(entries) ==
    IF Len(entries) = 0 THEN 0
    ELSE entries[1].confidence + SumConfidence(Tail(entries))

\* sum(e.confidence for e in entries) / len(entries)
AvgConfidence(entries) == SumConfidence(entries) \div Len(entries)

\* the consistency bonus of _calculate_confidence
ConsistencyBonus(entries) ==
    LET has_page_numbers ==
            \E i \in DOMAIN entries : entries[i].page_number # NoneInt
        has_varying_levels ==
            Cardinality({entries[i].level : i \in DOMAIN entries}) > 1
    IN  (IF has_page_numbers THEN Tenth(1) ELSE 0)
        + (IF has_varying_levels THEN Tenth(1) ELSE 0)

\* _calculate_confidence
CalculateConfidence(entries) ==
    IF Len(entries) = 0 THEN 0
    ELSE Min(AvgConfidence(entries) + ConsistencyBonus(entries), One)

\* The structure a caller is given over the entries of a result: entries is a
\* flat list, a TOCEntry has no field for children or for a parent, and no
\* function builds a tree, so every entry stands as a root (parent 0).
Forest(entries) == [i \in DOMAIN entries |-> [entry |-> entries[i], parent |-> 0]]

(***************************************************************************)
(* _group_words_into_lines.  A word is [text, x0, top].                    *)
(***************************************************************************)
WordKeyLeq(a, b) == a.top < b.top \/ (a.top = b.top /\ a.x0 <= b.x0)

\* sorted(words, key=lambda w: (w['top'], w['x0'])): a stable sort
RECURSIVE InsertWord(_, _)
InsertWord(sorted, w) ==
    IF Len(sorted) = 0 THEN <<w>>
    ELSE IF WordKeyLeq(sorted[Len(sorted)], w) THEN Append(sorted, w)
    ELSE Append(InsertWord(SubSeq(sorted, 1, Len(sorted) - 1), w),
                sorted[Len(sorted)])
RECURSIVE SortWords(_)
SortWords(words) ==
    IF Len(words) = 0 THEN <<>>
    ELSE InsertWord(SortWords(SubSeq(words, 1, Len(words) - 1)), words[Len(words)])

Abs(n) == IF n < 0 THEN 0 - n ELSE n

\* the tolerance of the sweep
LineTolerance == 5

\* whether the sweep keeps word on the line anchored at current_top
SameLine(word, current_top) == Abs(word.top - current_top) < LineTolerance

\* the sweep over words[i..], with the lines closed so far, the open line and
\* its anchor
RECURSIVE SweepWords(_, _, _, _, _)
SweepWords(words, i, lines, current_line, current_top) ==
    IF i > Len(words) THEN Append(lines, current_line)
    ELSE IF SameLine(words[i], current_top)
    THEN SweepWords(words, i + 1, lines, Append(current_line, words[i]), current_top)
    ELSE SweepWords(words, i + 1, Append(lines, current_line),
                    <<words[i]>>, words[i].top)

GroupWordsIntoLines(words) ==
    IF Len(words) = 0 THEN <<>>
    ELSE LET sorted == SortWords(words)
         IN  SweepWords(sorted, 2, <<>>, <<sorted[1]>>, sorted[1].top)

\* ' '.join(word['text'] for word in line)
LineText(line) == JoinSpace([i \in DOMAIN line |-> line[i].text])

(***************************************************************************)
(* _parse_toc_line: None, or the entry of a line that ends in a number.    *)
(***************************************************************************)
\* the plausible page range
MinPageNumber == 1
MaxPageNumber == 1000

\* the confidence of a parsed line
LineConfidence(title_text, text, page_number) ==
    Tenth(7)
    + (IF IsUpper(title_text[1]) THEN Tenth(1) ELSE 0)
    + (IF EndsWith(text, IntToStr(page_number)) THEN Tenth(1) ELSE 0)
    + (IF Contains(text, <<".", ".", ".">>) \/ Contains(text, <<".", ".", ".", ".">>)
       THEN Tenth(1) ELSE 0)

ParseTocLine(line, page_num) ==
    IF Len(line) = 0 THEN None
    ELSE
    LET text == LineText(line)
        page_match == TrailingNumber(text)
    IN  IF page_match = <<>> THEN None
        ELSE
        LET page_number == ParseInt(page_match)
        IN  IF page_number < MinPageNumber \/ page_number > MaxPageNumber THEN None
            ELSE
            LET cut == Strip(PrefixTo(text, RFind(text, IntToStr(page_number))))
                title_text == Strip(RemoveLeaders(cut))
            IN  IF title_text = <<>> THEN None
                ELSE [kind |-> "TOCEntry",
                      entry |-> TOCEntry(title_text, page_number, 0,
                                   LineConfidence(title_text, text, page_number),
                                   text,
                                   IF Contains(text, <<".", ".", ".">>)
                                   THEN "dot_leader" ELSE "page_reference")]

(***************************************************************************)
(* _extract_native_toc: toc is what doc.get_toc() hands over, a list of    *)
(* [level, title, page].                                                   *)
(***************************************************************************)
NativeEntry(item) ==
    TOCEntry(Strip(item.title), item.page, item.level - 1, One, item.title, "heading")

ExtractNativeToc(fitz_available, toc) ==
    IF ~fitz_available THEN None
    ELSE IF Len(toc) = 0 THEN None
    ELSE TOCResult([i \in DOMAIN toc |-> NativeEntry(toc[i])],
                   "native_toc", One, [source |-> "PDF native outline"])

(***************************************************************************)
(* _extract_via_outline.  A node of reader.outline is a list               *)
(* [kind |-> "list", items] or an item [kind |-> "item", title, has_page,  *)
(* resolvable, page_index]: has_page is hasattr(item, 'page'), resolvable  *)
(* whether reader.get_page_number(item.page) returns (page_index) or       *)
(* raises.                                                                 *)
(***************************************************************************)
OutlineItemEntry(item, level) ==
    IF item.has_page /\ ~item.resolvable
    THEN <<>>     \* the except branch: a warning, no entry
    ELSE <<TOCEntry(item.title,
                    IF item.has_page THEN item.page_index + 1 ELSE NoneInt,
                    level, Tenth(9), item.title, "heading")>>

RECURSIVE ProcessOutlineItem(_, _)
RECURSIVE ProcessOutlineList(_, _)
ProcessOutlineItem(item, level) ==
    IF item.kind = "list" THEN ProcessOutlineList(item.items, level + 1)
    ELSE OutlineItemEntry(item, level)
ProcessOutlineList(items, level) ==
    IF Len(items) = 0 THEN <<>>
    ELSE ProcessOutlineItem(items[1], level) \o ProcessOutlineList(Tail(items), level)

\* the overall confidence the outline strategy reports
OutlineConfidence(entries) == Tenth(9)

ExtractViaOutline(outline) ==
    IF Len(outline) = 0 THEN None
    ELSE LET entries == ProcessOutlineItem([kind |-> "list", items |-> outline], 0)
         IN  IF Len(entries) > 0
             THEN TOCResult(entries, "outline", OutlineConfidence(entries),
                            [source |-> "PDF outline structure"])
             ELSE None

(***************************************************************************)
(* The pdfplumber strategies.  A page is [text, words]: text is what       *)
(* page.extract_text() returns (<<>> for None or ''), words what           *)
(* page.extract_words() returns.                                           *)
(***************************************************************************)
\* pdf.pages[:20]
TocScanPages == 20
FirstPages(pages) == SubSeq(pages, 1, Min(Len(pages), TocScanPages))

\* \s+ from Python position i on: the positions where the run may end
SpaceRunEnds(s, i) ==
    {j \in (i + 1)..Len(s) : \A k \in (i + 1)..j : IsSpace(s[k])}

\* any(re.search(pattern, text_lower) for pattern in toc_patterns)
HasTocMarker(text) ==
    LET text_lower == Lower(text)
        content == <<"c","o","n","t","e","n","t">>
        tableWord == <<"t","a","b","l","e">>
        ofWord == <<"o","f">>
    IN  \/ Contains(text_lower, content)                      \* contents?
        \/ \E i \in 0..Len(text_lower) :                      \* table\s+of\s+contents?
              /\ OccursAt(text_lower, tableWord, i)
              /\ \E j \in SpaceRunEnds(text_lower, i + 5) :
                    /\ OccursAt(text_lower, ofWord, j)
                    /\ \E k \in SpaceRunEnds(text_lower, j + 2) :
                          OccursAt(text_lower, content, k)
        \/ Contains(text_lower, <<"i","n","d","e","x">>)      \* index
        \/ Contains(text_lower, <<"s","u","m","m","a","r","y">>)  \* summary

\* entry.confidence *= 1.2
Boosted(entry) == [entry EXCEPT !.confidence = (entry.confidence * 12) \div 10]

\* the entries _parse_toc_line yields for lines[i..], boosted in the ML strategy
RECURSIVE ParsedEntries(_, _, _, _)
ParsedEntries(lines, i, page_num, ml) ==
    IF i > Len(lines) THEN <<>>
    ELSE LET parsed == ParseTocLine(lines[i], page_num)
         IN  (IF parsed = None THEN <<>>
              ELSE IF ml THEN <<Boosted(parsed.entry)>>
              ELSE <<parsed.entry>>)
             \o ParsedEntries(lines, i + 1, page_num, ml)

\* the 0-based indices of the pages among the first 20 that carry a marker
TocPageIndices(pages) ==
    {i \in 0..(Len(FirstPages(pages)) - 1) : HasTocMarker(pages[i + 1].text)}

\* the entries of the marker pages with 0-based index >= i, in page order
RECURSIVE TextEntriesFrom(_, _, _)
TextEntriesFrom(pages, toc_pages, i) ==
    IF i >= Len(pages) THEN <<>>
    ELSE (IF i \in toc_pages /\ Len(pages[i + 1].words) > 0
          THEN ParsedEntries(GroupWordsIntoLines(pages[i + 1].words), 1, i, FALSE)
          ELSE <<>>)
         \o TextEntriesFrom(pages, toc_pages, i + 1)

ExtractViaTextAnalysis(pdfplumber_available, pages) ==
    IF ~pdfplumber_available THEN None
    ELSE LET toc_pages == TocPageIndices(pages)
         IN  IF toc_pages = {} THEN None
             ELSE LET entries == TextEntriesFrom(pages, toc_pages, 0)
                  IN  IF Len(entries) > 0
                      THEN TOCResult(entries, "text_analysis",
                                     CalculateConfidence(entries),
                                     [toc_pages |-> Cardinality(toc_pages)])
                      ELSE None

(***************************************************************************)
(* _extract_via_layout_analysis.                                           *)
(***************************************************************************)
\* a page qualifies with more distinct word x0 values than this
DistinctXFloor == 3
\* an indent or outdent is a left-edge change of more than this
IndentStep == 5

DistinctX(words) == {words[i].x0 : i \in DOMAIN words}

\* the 0-based indices of potential_toc_pages
PotentialTocPages(pages) ==
    {i \in 0..(Len(FirstPages(pages)) - 1) :
        /\ Len(pages[i + 1].words) > 0
        /\ Cardinality(DistinctX(pages[i + 1].words)) > DistinctXFloor}

\* NextLevel without the max(0, ...) of line 358
NextLevelUnclamped(prev_x0, current_x0, level) ==
    IF prev_x0 # NoneInt /\ current_x0 > prev_x0 + IndentStep THEN level + 1
    ELSE IF prev_x0 # NoneInt /\ current_x0 < prev_x0 - IndentStep THEN level - 1
    ELSE level

\* the level of a line whose first word starts at current_x0
NextLevel(prev_x0, current_x0, level) ==
    IF prev_x0 # NoneInt /\ current_x0 > prev_x0 + IndentStep THEN level + 1
    ELSE IF prev_x0 # NoneInt /\ current_x0 < prev_x0 - IndentStep
    THEN Max(0, level - 1)
    ELSE level

\* the entry of one line at a level: <<>> when the line neither ends in a
\* number nor carries dot leaders
LayoutLineEntry(line, level) ==
    LET text == LineText(line)
        has_dots == \/ Contains(text, <<".", ".", ".">>)
                    \/ Contains(text, <<".", ".", ".", ".">>)
                    \/ Contains(text, <<"·">>)
        page_match == TrailingNumber(text)
    IN  IF page_match = <<>> /\ ~has_dots THEN <<>>
        ELSE
        LET page_number == IF page_match # <<>> THEN ParseInt(page_match) ELSE NoneInt
            \* "if page_number:" is false for None and for 0
            numbered == page_number # NoneInt /\ page_number # 0
            cut == IF numbered THEN Strip(RemoveAll(text, IntToStr(page_number)))
                   ELSE text
            entry_text == IF has_dots THEN Strip(RemoveLeaders(cut)) ELSE cut
        IN  <<TOCEntry(entry_text, page_number, level,
                       IF has_dots THEN Tenth(8) ELSE Tenth(7), text,
                       IF has_dots THEN "dot_leader" ELSE "indented")>>

\* the entries of lines[i..] of one page
RECURSIVE LayoutLines(_, _, _, _)
LayoutLines(lines, i, prev_x0, level) ==
    IF i > Len(lines) THEN <<>>
    ELSE LET current_x0 == lines[i][1].x0
             lv == NextLevel(prev_x0, current_x0, level)
         IN  LayoutLineEntry(lines[i], lv) \o LayoutLines(lines, i + 1, current_x0, lv)

\* the body of the loop over potential_toc_pages for a page with these words:
\* prev_x0 = None and level = 0 when its first line is met
LayoutPage(words) == LayoutLines(GroupWordsIntoLines(words), 1, NoneInt, 0)

RECURSIVE LayoutEntriesFrom(_, _, _)
LayoutEntriesFrom(pages, potential, i) ==
    IF i >= Len(pages) THEN <<>>
    ELSE (IF i \in potential
          THEN LayoutPage(pages[i + 1].words)
          ELSE <<>>)
         \o LayoutEntriesFrom(pages, potential, i + 1)

ExtractViaLayoutAnalysis(pdfplumber_available, pages) ==
    IF ~pdfplumber_available THEN None
    ELSE LET potential == PotentialTocPages(pages)
             entries == LayoutEntriesFrom(pages, potential, 0)
         IN  IF Len(entries) > 0
             THEN TOCResult(entries, "layout_analysis", CalculateConfidence(entries),
                            [pages_analyzed |-> Cardinality(potential)])
             ELSE None

(***************************************************************************)
(* _extract_via_ml.                                                        *)
(***************************************************************************)
\* fewer feature rows than this: no clustering
MinFeatures == 3
\* toc_page_indices[:3]
MlPageLimit == 3

\* the feature rows [num_unique_x, num_words] of the pages that have words
RECURSIVE PageFeatures(_, _)
PageFeatures(pages, i) ==
    IF i > Len(pages) THEN <<>>
    ELSE (IF Len(pages[i].words) = 0 THEN <<>>
          ELSE <<[num_unique_x |-> Cardinality(DistinctX(pages[i].words)),
                  num_words |-> Len(pages[i].words)]>>)
         \o PageFeatures(pages, i + 1)

\* DBSCAN(eps=0.5, min_samples=2).fit(X).labels_ != -1: a row is in a cluster
\* exactly when another row lies within eps of it (the two are then core
\* points), i.e. 4 * squared distance <= 1
Clustered(features) ==
    {k \in 0..(Len(features) - 1) :
        \E o \in 0..(Len(features) - 1) :
            /\ o # k
            /\ LET dx == features[k + 1].num_unique_x - features[o + 1].num_unique_x
                   dy == features[k + 1].num_words - features[o + 1].num_words
               IN  4 * (dx * dx + dy * dy) <= 1}

\* the members of a set of numbers in ascending order
RECURSIVE Ascending(_)
Ascending(S) ==
    IF S = {} THEN <<>>
    ELSE LET m == CHOOSE x \in S : \A y \in S : x <= y
         IN  <<m>> \o Ascending(S \ {m})

RECURSIVE MlEntriesFrom(_, _, _)
MlEntriesFrom(pages, indices, k) ==
    IF k > Min(Len(indices), MlPageLimit) THEN <<>>
    ELSE ParsedEntries(GroupWordsIntoLines(pages[indices[k] + 1].words), 1,
                       indices[k] + 1, TRUE)
         \o MlEntriesFrom(pages, indices, k + 1)

\* min(confidence * 1.1, 1.0)
MlConfidence(entries) == Min((CalculateConfidence(entries) * 11) \div 10, One)

ExtractViaMl(use_ml_flag, pdfplumber_available, pages) ==
    IF ~use_ml_flag \/ ~pdfplumber_available THEN None
    ELSE LET features == PageFeatures(pages, 1)
         IN  IF Len(features) < MinFeatures THEN None
             ELSE LET toc_page_indices == Ascending(Clustered(features))
                      entries == MlEntriesFrom(pages, toc_page_indices, 1)
                  IN  IF Len(entries) > 0
                      THEN TOCResult(entries, "ml_analysis", MlConfidence(entries),
                                     [ml_pages_detected |-> Len(toc_page_indices)])
                      ELSE None

(***************************************************************************)
(* What the collaborators may hand over: small documents.                  *)
(***************************************************************************)
SeqsUpTo(S, n) == UNION {[1..k -> S] : k \in 0..n}

\* rows of doc.get_toc(): the same heading twice in different case, and once
\* more one level down
TocRows ==
    { [level |-> 1, title |-> <<"A">>, page |-> 1],
      [level |-> 1, title |-> <<"a", " ">>, page |-> 3],
      [level |-> 2, title |-> <<"A">>, page |-> 3] }
FitzTocs == SeqsUpTo(TocRows, MaxToc)

\* nodes of reader.outline: an item with a page, one whose page cannot be
\* resolved, and a list that nests these and an item without the page attribute
ItemPaged == [kind |-> "item", title |-> <<"A">>, has_page |-> TRUE,
              resolvable |-> TRUE, page_index |-> 0]
ItemUnpaged == [kind |-> "item", title |-> <<"a">>, has_page |-> FALSE,
                resolvable |-> FALSE, page_index |-> 0]
ItemBroken == [kind |-> "item", title |-> <<"B">>, has_page |-> TRUE,
               resolvable |-> FALSE, page_index |-> 0]
NestedList == [kind |-> "list",
               items |-> <<ItemUnpaged, ItemBroken,
                           [kind |-> "list", items |-> <<ItemPaged>>]>>]
OutlineNodes == {ItemPaged, ItemBroken, NestedList}
Outlines == SeqsUpTo(OutlineNodes, MaxOutline)

Word(text, x0, top) == [text |-> text, x0 |-> x0, top |-> top]

\* "Contents": the line "Intro 3" and, lower, the line "intro 3"; the words of
\* the first line differ in top within the tolerance
PageContents ==
    [text |-> <<"C","o","n","t","e","n","t","s">>,
     words |-> << Word(<<"I","n","t","r","o">>, 0, 10), Word(<<"3">>, 50, 12),
                  Word(<<"i","n","t","r","o">>, 0, 30), Word(<<"3">>, 50, 30) >>]
\* "index": the lines "a 2" and, indented, "b 7", the words out of order
PageIndex ==
    [text |-> <<"i","n","d","e","x">>,
     words |-> << Word(<<"7">>, 60, 20), Word(<<"b">>, 10, 20),
                  Word(<<"a">>, 0, 10), Word(<<"2">>, 40, 10) >>]
\* no marker: the line "Ch ... 12" and, indented, a bare "9"
PageLeaders ==
    [text |-> <<"a","b","c">>,
     words |-> << Word(<<"C","h">>, 0, 10), Word(<<".",".",".">>, 20, 10),
                  Word(<<"1","2">>, 50, 10), Word(<<"9">>, 30, 40) >>]
\* no marker, two left edges: the line "Intro 3"
PagePlain ==
    [text |-> <<"I","n","t","r","o"," ","3">>,
     words |-> << Word(<<"I","n","t","r","o">>, 0, 10), Word(<<"3">>, 50, 10) >>]
\* a page without text
PageBlank == [text |-> <<>>, words |-> <<>>]

PageSamples == {PageContents, PageIndex, PageLeaders, PagePlain, PageBlank}
Documents == SeqsUpTo(PageSamples, MaxPages)

(***************************************************************************)
(* One call of extract_from_file.                                          *)
(***************************************************************************)
VARIABLES
    pc,                   \* where the call stands: start, loop, select, done, raised
    pdf_exists,           \* os.path.exists(pdf_path)
    min_confidence,       \* self.min_confidence
    use_ml,               \* self.use_ml
    pdfplumber_available, \* PDFPLUMBER_AVAILABLE
    pdf,                  \* the pages pdfplumber reads, fixed by the first open
    m,                    \* the position in methods of the next strategy
    best_result,
    best_confidence,
    calls,                \* how often each strategy was invoked
    outcome,              \* what each strategy did when invoked
    ret,                  \* the value returned to the caller
    raised                \* the exception raised to the caller

\* one call of a helper of the extractor on its own
VARIABLES
    callee,               \* the function called
    args,                 \* what it is called with
    returned              \* Pending, or Value(v) once it returned v

\* a BPPProcessor of bpp.py
VARIABLES
    min_area,             \* self.min_area
    large_chars,          \* self.large_chars
    lines_with_large_chars, \* self.lines_with_large_chars
    processed             \* the process_char calls made so far, in order

extraction == <<pc, pdf_exists, min_confidence, use_ml, pdfplumber_available, pdf, m,
                best_result, best_confidence, calls, outcome, ret, raised>>
helper == <<callee, args, returned>>
processor == <<min_area, large_chars, lines_with_large_chars, processed>>
vars == <<extraction, helper, processor>>

Pending == [kind |-> "pending"]
Value(v) == [kind |-> "value", value |-> v]

\* no helper is called on its own
NoHelper == callee = "none" /\ args = <<>> /\ returned = Pending
\* no BPPProcessor exists
NoProcessor ==
    /\ min_area = 0
    /\ large_chars = <<>>
    /\ lines_with_large_chars = <<>>
    /\ processed = <<>>

\* the strategies, numbered in the order of trust
MethodNames == <<"_extract_native_toc", "_extract_via_outline",
                 "_extract_via_text_analysis", "_extract_via_layout_analysis",
                 "_extract_via_ml">>
Strategies == DOMAIN MethodNames
Native == 1
Outline == 2
TextAnalysis == 3
LayoutAnalysis == 4
Ml == 5

\* methods with the layout strategy ahead of the text strategy
methodsLayoutFirst == <<Native, Outline, LayoutAnalysis, TextAnalysis, Ml>>

\* the list the loop walks: lines 132-138
methods == <<Native, Outline, TextAnalysis, LayoutAnalysis, Ml>>

NotInvoked == [kind |-> "not_invoked"]
Raised == [kind |-> "exception"]
Unread == [opened |-> FALSE, pages |-> <<>>]

\* the values of min_confidence tried: the default, and one that candidates meet
\* exactly
MinConfidences == {Tenth(5), Tenth(8)}

Init ==
    /\ pc = "start"
    /\ pdf_exists \in BOOLEAN
    /\ min_confidence \in MinConfidences
    /\ use_ml \in BOOLEAN
    /\ pdfplumber_available \in BOOLEAN
    /\ pdf = Unread
    /\ m = 1
    /\ best_result = None
    /\ best_confidence = 0
    /\ calls = [k \in Strategies |-> 0]
    /\ outcome = [k \in Strategies |-> NotInvoked]
    /\ ret = None
    /\ raised = "none"
    /\ NoHelper
    /\ NoProcessor

\* CheckPath without the test of line 128
CheckPathUnchecked ==
    /\ pc = "start"
    /\ pc' = "loop"
    /\ UNCHANGED <<pdf_exists, min_confidence, use_ml, pdfplumber_available, pdf, m,
                   best_result, best_confidence, calls, outcome, ret, raised>>
    /\ UNCHANGED <<helper, processor>>

\* lines 128-129
CheckPath ==
    /\ pc = "start"
    /\ IF pdf_exists
       THEN pc' = "loop" /\ raised' = raised
       ELSE pc' = "raised" /\ raised' = "FileNotFoundError"
    /\ UNCHANGED <<pdf_exists, min_confidence, use_ml, pdfplumber_available, pdf, m,
                   best_result, best_confidence, calls, outcome, ret>>
    /\ UNCHANGED <<helper, processor>>

\* StopsEarly with a threshold no confidence exceeds
StopsEarlyAboveOne(confidence) == confidence > One

\* "if best_confidence > 0.9: break"
StopsEarly(confidence) == confidence > Tenth(9)

\* Improves with >= for >: a later strategy takes a tie
ImprovesOrTies(result, best) ==
    result.kind = "TOCResult" /\ result.confidence_score >= best

\* "if result and result.confidence_score > best_confidence"
Improves(result, best) == result.kind = "TOCResult" /\ result.confidence_score > best

\* Breaks with a break in the except branch too
BreaksOnFailure(oc, best) ==
    \/ oc.kind = "exception"
    \/ (Improves(oc, best) /\ StopsEarly(oc.confidence_score))

\* whether the loop is left after a strategy ended with oc: the break of line
\* 152; the except branch continues
Breaks(oc, best) == Improves(oc, best) /\ StopsEarly(oc.confidence_score)

\* one pass of the loop body of lines 143-156 for strategy k, which ended with
\* oc: a TOCResult, None or Raised
LoopBody(k, oc) ==
    /\ pc = "loop"
    /\ methods[m] = k
    /\ calls' = [calls EXCEPT ![k] = @ + 1]
    /\ outcome' = [outcome EXCEPT ![k] = oc]
    /\ IF Improves(oc, best_confidence)
       THEN /\ best_result' = oc
            /\ best_confidence' = oc.confidence_score
       ELSE UNCHANGED <<best_result, best_confidence>>
    /\ IF Breaks(oc, best_confidence) \/ m = Len(methods)
       THEN pc' = "select" /\ m' = m
       ELSE pc' = "loop" /\ m' = m + 1
    /\ UNCHANGED <<pdf_exists, min_confidence, use_ml, pdfplumber_available, ret, raised>>
    /\ UNCHANGED <<helper, processor>>

\* fitz is read by this strategy alone: FITZ_AVAILABLE, whether fitz.open or
\* get_toc raises, and the rows
RunNative ==
    \E fitz_available \in BOOLEAN, fails \in BOOLEAN, toc \in FitzTocs :
        /\ LoopBody(Native, IF fitz_available /\ fails THEN Raised
                       ELSE ExtractNativeToc(fitz_available, toc))
        /\ UNCHANGED pdf

RunOutline ==
    \E fails \in BOOLEAN, outline \in Outlines :
        /\ LoopBody(Outline, IF fails THEN Raised ELSE ExtractViaOutline(outline))
        /\ UNCHANGED pdf

\* what pdfplumber.open(pdf_path) may hold: the pages read before, or any
\* document when the file was not read yet
Readable == IF pdf.opened THEN {pdf.pages} ELSE Documents

\* method(pdf_path) of line 145 for the three strategies that read pdfplumber
ExtractWith(k, pages) ==
    CASE k = TextAnalysis -> ExtractViaTextAnalysis(pdfplumber_available, pages)
      [] k = LayoutAnalysis -> ExtractViaLayoutAnalysis(pdfplumber_available, pages)
      [] k = Ml -> ExtractViaMl(use_ml, pdfplumber_available, pages)

\* a pdfplumber strategy that gets as far as pdfplumber.open either raises (the
\* file stays as it was) or reads the pages
RunPdfplumber(k, reads) ==
    IF ~reads
    THEN LoopBody(k, ExtractWith(k, <<>>)) /\ UNCHANGED pdf
    ELSE \E fails \in BOOLEAN, pages \in Readable :
            IF fails
            THEN LoopBody(k, Raised) /\ UNCHANGED pdf
            ELSE /\ LoopBody(k, ExtractWith(k, pages))
                 /\ pdf' = [opened |-> TRUE, pages |-> pages]

RunTextAnalysis == RunPdfplumber(TextAnalysis, pdfplumber_available)

RunLayoutAnalysis == RunPdfplumber(LayoutAnalysis, pdfplumber_available)

RunMl == RunPdfplumber(Ml, use_ml /\ pdfplumber_available)

\* FilterByConfidence with > for >=
RECURSIVE FilterAboveConfidence(_, _)
FilterAboveConfidence(entries, floor) ==
    IF Len(entries) = 0 THEN <<>>
    ELSE (IF entries[1].confidence > floor THEN <<entries[1]>> ELSE <<>>)
         \o FilterAboveConfidence(Tail(entries), floor)

\* entries with confidence >= floor, in their order
RECURSIVE FilterByConfidence(_, _)
FilterByConfidence(entries, floor) ==
    IF Len(entries) = 0 THEN <<>>
    ELSE (IF entries[1].confidence >= floor THEN <<entries[1]>> ELSE <<>>)
         \o FilterByConfidence(Tail(entries), floor)

\* EmptyResult forgotten: best_result, which is None, is returned
EmptyResultAbsent == None

\* lines 160-165
EmptyResult == TOCResult(<<>>, "none", 0, [error |-> "No TOC could be extracted"])

\* Filtered that reports what is left: the score is computed anew from the
\* entries kept, and the empty result stands in when none is kept
FilteredAndRescored(result, floor) ==
    LET kept == FilterByConfidence(result.entries, floor)
    IN  IF Len(kept) = 0 THEN EmptyResult
        ELSE [result EXCEPT !.entries = kept,
                            !.confidence_score = CalculateConfidence(kept)]

\* lines 167-171: best_result.entries is the one attribute written
Filtered(result, floor) ==
    [result EXCEPT !.entries = FilterByConfidence(@, floor)]

\* lines 158-173: the filter writes best_result.entries, and that object is
\* returned
Return ==
    /\ pc = "select"
    /\ pc' = "done"
    /\ IF best_result = None
       THEN ret' = EmptyResult /\ best_result' = best_result
       ELSE LET filtered == Filtered(best_result, min_confidence)
            IN  ret' = filtered /\ best_result' = filtered
    /\ UNCHANGED <<pdf_exists, min_confidence, use_ml, pdfplumber_available, pdf, m,
                   best_confidence, calls, outcome, raised>>
    /\ UNCHANGED <<helper, processor>>

Next ==
    \/ CheckPath
    \/ RunNative
    \/ RunOutline
    \/ RunTextAnalysis
    \/ RunLayoutAnalysis
    \/ RunMl
    \/ Return

Spec == Init /\ [][Next]_vars

(***************************************************************************)
(* One call of a helper of the extractor, on arguments of its own: the     *)
(* line grouping, the line parser, the outline traversal and the page loop *)
(* of the layout strategy.                                                 *)
(***************************************************************************)
\* no extraction is under way
NoExtraction ==
    /\ pc = "idle"
    /\ pdf_exists = FALSE
    /\ min_confidence = Tenth(5)
    /\ use_ml = FALSE
    /\ pdfplumber_available = FALSE
    /\ pdf = Unread
    /\ m = 1
    /\ best_result = None
    /\ best_confidence = 0
    /\ calls = [k \in Strategies |-> 0]
    /\ outcome = [k \in Strategies |-> NotInvoked]
    /\ ret = None
    /\ raised = "none"

\* words for _group_words_into_lines: two left edges, and tops that are 1, 2, 5
\* and 40 apart
GroupTops == {10, 12, 15, 50, 51}
GroupWords == {Word(<<"w">>, x0, top) : x0 \in {0, 50}, top \in GroupTops}
WordLists == SeqsUpTo(GroupWords, MaxWords)

\* lines for _parse_toc_line: a title word, leaders, and numbers in the page
\* range, out of it, and with leading zeros
LineWordTexts ==
    { <<"A">>, <<"a">>, <<".", ".">>, <<".", ".", ".">>, <<"7">>, <<"0", "7">>,
      <<"0">>, <<"1", "0", "0", "0">>, <<"1", "0", "0", "1">> }
TocLines ==
    UNION { [1..n -> {Word(t, 0, 10) : t \in LineWordTexts}] : n \in 0..MaxLineWords }

\* outlines for process_outline_item: up to MaxItems nodes, each an item or a
\* list that nests items up to two lists deep
OutlineSubLists ==
    { [kind |-> "list", items |-> <<ItemUnpaged>>],
      [kind |-> "list", items |-> <<ItemBroken, ItemPaged>>],
      [kind |-> "list",
       items |-> <<ItemPaged, [kind |-> "list", items |-> <<ItemUnpaged>>],
                   ItemPaged>>],
      NestedList }
NestedOutlines ==
    SeqsUpTo({ItemPaged, ItemUnpaged, ItemBroken} \cup OutlineSubLists, MaxItems)

\* pages for the layout strategy: one word a line, line i at top 10 * i; the
\* left edges are 5, 6 and 12 apart, the word is a page number or not
LayoutEdges == {0, 5, 6, 12}
LayoutTexts == {<<"7">>, <<"a">>}
LayoutPages ==
    UNION { { [i \in 1..n |-> Word(t[i], x[i], 10 * i)] :
                t \in [1..n -> LayoutTexts], x \in [1..n -> LayoutEdges] } :
            n \in 0..MaxLines }

HelperInit ==
    /\ NoExtraction
    /\ NoProcessor
    /\ returned = Pending
    /\ \/ callee = "_group_words_into_lines" /\ args \in WordLists
       \/ callee = "_parse_toc_line" /\ args \in TocLines
       \/ callee = "process_outline_item" /\ args \in NestedOutlines
       \/ callee = "_extract_via_layout_analysis" /\ args \in LayoutPages

\* the call of callee returns v
Returns(name, v) ==
    /\ callee = name
    /\ returned = Pending
    /\ returned' = Value(v)
    /\ UNCHANGED <<callee, args, extraction, processor>>

CallGroupWordsIntoLines ==
    Returns("_group_words_into_lines", GroupWordsIntoLines(args))

\* page_num is not read by _parse_toc_line
CallParseTocLine == Returns("_parse_toc_line", ParseTocLine(args, 1))

\* process_outline_item(reader.outline): the entries appended
CallProcessOutlineItem ==
    Returns("process_outline_item",
            ProcessOutlineItem([kind |-> "list", items |-> args], 0))

\* the entries one potential TOC page adds
CallLayoutPage == Returns("_extract_via_layout_analysis", LayoutPage(args))

HelperNext ==
    \/ CallGroupWordsIntoLines
    \/ CallParseTocLine
    \/ CallProcessOutlineItem
    \/ CallLayoutPage

HelperSpec == HelperInit /\ [][HelperNext]_vars

(***************************************************************************)
(* The claims.                                                             *)
(***************************************************************************)
\* the strategies that returned a result
Results == {k \in Strategies : outcome[k].kind = "TOCResult"}
\* strategy k returned a result of confidence above 0.9
HighResult(k) == k \in Results /\ outcome[k].confidence_score > Tenth(9)
\* the strategy whose result was returned
Selected == CHOOSE k \in Results : outcome[k].method_used = ret.method_used

\* C1: once a strategy has returned a result of overall confidence above 0.9, no
\* strategy later in the order is invoked in that call; after a native result of
\* confidence 1.0 the four other strategies are invoked zero times.
C1_EarlyStop ==
    \A k \in Strategies :
        HighResult(k) =>
            \A j \in Strategies : j > k => calls[j] = 0 /\ outcome[j] = NotInvoked

C1_Witness ==
    /\ pc = "done"
    /\ outcome[Native].kind = "TOCResult"
    /\ outcome[Native].confidence_score = One
    /\ \A j \in Strategies \ {Native} : calls[j] = 0
    /\ ret.method_used = "native_toc"

\* k returned the highest confidence among the results, and no earlier strategy
\* returned as much
IsBest(k) ==
    /\ k \in Results
    /\ \A j \in Results :
          /\ outcome[j].confidence_score <= outcome[k].confidence_score
          /\ j < k => outcome[j].confidence_score < outcome[k].confidence_score

\* C2: whatever the strategies did (None, an exception, a result), the result
\* selected is the one of highest overall confidence among the results the
\* invoked strategies returned, the earlier strategy winning a tie.
C2_SelectsHighest ==
    /\ pc = "select" =>
          IF Results = {} THEN best_result = None
          ELSE \E k \in Results : IsBest(k) /\ best_result = outcome[k]
    /\ pc = "done" =>
          IF Results = {} THEN ret.method_used = "none"
          ELSE \E k \in Results :
                  /\ IsBest(k)
                  /\ ret.method_used = outcome[k].method_used
                  /\ ret.confidence_score = outcome[k].confidence_score
                  /\ ret.metadata = outcome[k].metadata

\* the native and outline strategies return None, the text and the layout
\* strategy tie, and the text result is returned
C2_Witness ==
    /\ pc = "done"
    /\ outcome[Native] = None
    /\ outcome[Outline] = None
    /\ outcome[TextAnalysis].kind = "TOCResult"
    /\ outcome[LayoutAnalysis].kind = "TOCResult"
    /\ outcome[LayoutAnalysis].confidence_score = outcome[TextAnalysis].confidence_score
    /\ ret.method_used = "text_analysis"

\* C3: the entries returned are exactly the selected result's candidates of
\* confidence >= min_confidence, in their original order: the j-th entry
\* returned is the j-th candidate that meets min_confidence.
C3_FilterExact ==
    (pc = "done" /\ Results # {}) =>
        LET orig == outcome[Selected].entries
            kept == {i \in DOMAIN orig : orig[i].confidence >= min_confidence}
        IN  /\ Len(ret.entries) = Cardinality(kept)
            /\ \A j \in DOMAIN ret.entries :
                  \E i \in kept :
                      /\ Cardinality({x \in kept : x <= i}) = j
                      /\ ret.entries[j] = orig[i]

\* a candidate below min_confidence is dropped ahead of one that meets it
\* exactly and is kept
C3_Witness ==
    /\ pc = "done"
    /\ Results # {}
    /\ LET orig == outcome[Selected].entries
       IN  \E i, j \in DOMAIN orig :
              /\ i < j
              /\ orig[i].confidence < min_confidence
              /\ orig[j].confidence = min_confidence
              /\ Len(ret.entries) >= 2
              /\ ret.entries[Len(ret.entries)] = orig[j]

\* C4: a strategy that raises leaves the best result as it was, nothing reaches
\* the caller, and the loop goes on to the next strategy exactly as after None;
\* every later strategy is invoked unless the loop stopped early before it.
C4_FailureIsSkipped ==
    /\ [][\A k \in Strategies :
            (outcome[k] = NotInvoked /\ outcome'[k] = Raised) =>
                /\ best_result' = best_result
                /\ best_confidence' = best_confidence
                /\ raised' = "none"
                /\ ret' = ret
                /\ IF m < Len(methods) THEN pc' = "loop" /\ m' = m + 1
                   ELSE pc' = "select"]_vars
    /\ [](pc = "done" =>
            /\ raised = "none"
            /\ \A k \in Strategies :
                  outcome[k] = Raised =>
                      \A j \in Strategies :
                          j > k => \/ calls[j] = 1
                                   \/ \E i \in Strategies : k < i /\ i < j /\ HighResult(i))

\* the native and the text strategy raise, all five are invoked, and the outline
\* result recorded in between is returned
C4_Witness ==
    /\ pc = "done"
    /\ outcome[Native] = Raised
    /\ outcome[Outline].kind = "TOCResult"
    /\ outcome[TextAnalysis] = Raised
    /\ \A k \in Strategies : calls[k] = 1
    /\ ret.method_used = "outline"

\* a result record whose fields have the types of TOCResult
WellFormed(r) ==
    /\ r.kind = "TOCResult"
    /\ r.method_used \in {"none", "native_toc", "outline", "text_analysis",
                          "layout_analysis", "ml_analysis"}
    /\ r.confidence_score \in 0..One
    /\ DOMAIN r.entries = 1..Len(r.entries)

\* C5: the file exists and no strategy returns a result: the call returns, with
\* no entries, method "none", confidence 0.0 and a message in metadata; and for
\* an existing file the call never raises and what it returns is well formed.
C5_EmptyNotError ==
    /\ (pc = "done" /\ Results = {}) =>
          /\ ret.kind = "TOCResult"
          /\ ret.entries = <<>>
          /\ ret.method_used = "none"
          /\ ret.confidence_score = 0
          /\ "error" \in DOMAIN ret.metadata
    /\ pdf_exists => (raised = "none" /\ pc # "raised")
    /\ pc = "done" => WellFormed(ret)

\* all five strategies ran, some returned None and some raised
C5_Witness ==
    /\ pc = "done"
    /\ pdf_exists
    /\ \A k \in Strategies : calls[k] = 1 /\ outcome[k] \in {None, Raised}
    /\ \E k \in Strategies : outcome[k] = None
    /\ \E k \in Strategies : outcome[k] = Raised
    /\ ret.method_used = "none"

\* C6: a missing file makes the call raise FileNotFoundError with no strategy
\* invoked, and the call raises in no other case.
C6_MissingFileIsFatal ==
    /\ ~pdf_exists =>
          /\ pc \in {"start", "raised"}
          /\ \A k \in Strategies : calls[k] = 0 /\ outcome[k] = NotInvoked
          /\ ret = None
    /\ pc = "raised" => (raised = "FileNotFoundError" /\ ~pdf_exists)
    /\ raised # "none" => (pc = "raised" /\ ~pdf_exists)

C6_Witness ==
    /\ pc = "raised"
    /\ raised = "FileNotFoundError"
    /\ \A k \in Strategies : calls[k] = 0

\* C7: the strategies are invoked one at a time in the order native, outline,
\* text, layout, ML, each at most once, and one is invoked only when every
\* strategy before it has ended without a result of confidence above 0.9: the
\* strategies invoked are a prefix of the order.
C7_TrustOrder ==
    /\ [](\A k \in Strategies :
            /\ calls[k] <= 1
            /\ calls[k] = 1 <=> outcome[k] # NotInvoked
            /\ (k > 1 /\ calls[k] = 1) => (calls[k - 1] = 1 /\ ~HighResult(k - 1)))
    /\ [][\A k \in Strategies :
            calls'[k] # calls[k] =>
                /\ calls[k] = 0 /\ calls'[k] = 1
                /\ \A j \in Strategies : j < k => (calls[j] = 1 /\ ~HighResult(j))
                /\ \A j \in Strategies : j # k => calls'[j] = calls[j]]_vars

\* the text strategy stopped the loop: three strategies ran, two did not
C7_Witness ==
    /\ pc = "done"
    /\ calls[Native] = 1 /\ calls[Outline] = 1 /\ calls[TextAnalysis] = 1
    /\ HighResult(TextAnalysis)
    /\ calls[LayoutAnalysis] = 0 /\ calls[Ml] = 0

\* C8: every result a strategy returns has an overall confidence in [0,1] that
\* carries the consistency bonuses: when one of the two bonus conditions holds
\* and the average of the candidates' confidences is below 1, the overall
\* confidence is not that bare average.
C8_ConfidenceCarriesBonus ==
    \A k \in Results :
        LET r == outcome[k]
        IN  /\ r.confidence_score \in 0..One
            /\ (ConsistencyBonus(r.entries) > 0 /\ AvgConfidence(r.entries) < One)
                  => r.confidence_score # AvgConfidence(r.entries)

\* C9: every candidate of the result returned has a confidence in [0,1].
C9_EntryConfidenceInRange ==
    pc = "done" =>
        \A i \in DOMAIN ret.entries : ret.entries[i].confidence \in 0..One

\* C10: the entries returned never hold two candidates with the same level and
\* the same title compared case-insensitively.
C10_NoDuplicateEntries ==
    pc = "done" =>
        \A i, j \in DOMAIN ret.entries :
            i < j => ~ /\ ret.entries[i].level = ret.entries[j].level
                       /\ Lower(ret.entries[i].title) = Lower(ret.entries[j].title)

(***************************************************************************)
(* bpp.py: a BPPProcessor and its process_char.  A char is [text, bbox],   *)
(* bbox = <<x0, y0, x1, y1>>.  The line_bbox, fontname and size that a     *)
(* record of large_chars carries along are copied from the call and read   *)
(* by nothing here; they are left out.                                     *)
(***************************************************************************)
\* calculate_bbox_area without the abs of lines 42-43
CalculateBboxAreaSigned(bbox) == (bbox[3] - bbox[1]) * (bbox[4] - bbox[2])

CalculateBboxArea(bbox) == Abs(bbox[3] - bbox[1]) * Abs(bbox[4] - bbox[2])

\* f"[Page {page_num}] {line_text}"
LineEntry(page_num, line_text) ==
    <<"[", "P", "a", "g", "e", " ">> \o IntToStr(page_num) \o <<"]", " ">> \o line_text

\* the thresholds tried: one the small boxes straddle, and the default 100.0
MinAreas == {4, 100}
\* boxes of area 4, 6 (x running right to left), 100 and 110
CharBoxes == { <<0, 0, 2, 2>>, <<2, 0, 0, 3>>, <<0, 0, 10, 10>>, <<0, 0, 10, 11>> }
Chars == {[text |-> <<"x">>, bbox |-> b] : b \in CharBoxes}
PageNums == {1, 2}
LineTexts == {<<"a">>, <<"b">>}

\* BPPProcessor(min_area)
BppInit ==
    /\ NoExtraction
    /\ NoHelper
    /\ min_area \in MinAreas
    /\ large_chars = <<>>
    /\ lines_with_large_chars = <<>>
    /\ processed = <<>>

\* process_char(char, page_num, line_text, line_bbox)
ProcessChar(char, page_num, line_text) ==
    LET area == CalculateBboxArea(char.bbox)
        line_entry == LineEntry(page_num, line_text)
    IN  /\ Len(processed) < MaxChars
        /\ processed' = Append(processed, [char |-> char, page |-> page_num,
                                           line_text |-> line_text])
        /\ IF area > min_area
           THEN /\ large_chars' =
                       Append(large_chars,
                              [char |-> char.text, area |-> area, page |-> page_num,
                               bbox |-> char.bbox, line_text |-> line_text])
                /\ lines_with_large_chars' =
                       IF line_entry \in Range(lines_with_large_chars)
                       THEN lines_with_large_chars
                       ELSE Append(lines_with_large_chars, line_entry)
           ELSE UNCHANGED <<large_chars, lines_with_large_chars>>
        /\ UNCHANGED <<min_area, extraction, helper>>

BppNext ==
    \E char \in Chars, page_num \in PageNums, line_text \in LineTexts :
        ProcessChar(char, page_num, line_text)

BppSpec == BppInit /\ [][BppNext]_vars

(***************************************************************************)
(* The claims about the helpers, the hierarchy and bpp.py.                 *)
(***************************************************************************)
\* a call of name has returned
Returned(name) == callee = name /\ returned # Pending
\* the tops of the words of a line
Tops(line) == [i \in DOMAIN line |-> line[i].top]

\* C11: in the lines _group_words_into_lines returns, a new line starts exactly
\* when a word's top differs from the anchor (the top of the first word of the
\* line) by more than 5: every word of a line is within 5 of its anchor, a word
\* at distance exactly 5 included, and the first word of the next line is more
\* than 5 from the anchor of the line before; tops 10, 12, 50, 51 give the lines
\* {10, 12} and {50, 51}.
C11_NewLineBeyondTolerance ==
    Returned("_group_words_into_lines") =>
        LET lines == returned.value
        IN  /\ \A k \in DOMAIN lines : \A i \in DOMAIN lines[k] :
                   Abs(lines[k][i].top - lines[k][1].top) <= 5
            /\ \A k \in DOMAIN lines :
                   k > 1 => Abs(lines[k][1].top - lines[k - 1][1].top) > 5
            /\ Tops(args) = <<10, 12, 50, 51>> =>
                   [k \in DOMAIN lines |-> Tops(lines[k])] = << <<10, 12>>, <<50, 51>> >>

\* C12: in every line _group_words_into_lines returns the words stand left to
\* right: their x0 values do not decrease along the line.
C12_LeftToRight ==
    Returned("_group_words_into_lines") =>
        \A k \in DOMAIN returned.value :
            LET line == returned.value[k]
            IN  \A i, j \in DOMAIN line : i < j => line[i].x0 <= line[j].x0

\* the position of the nearest entry before i with a strictly smaller level, 0
\* when there is none
NearestSmallerRank(entries, i) ==
    LET smaller == {j \in 1..(i - 1) : entries[j].level < entries[i].level}
    IN  IF smaller = {} THEN 0 ELSE CHOOSE j \in smaller : \A k \in smaller : k <= j

\* C13: the program builds a hierarchy over the flat candidates in which each
\* candidate is a child of the nearest preceding candidate with a strictly
\* smaller rank, and a root when there is none.
C13_ChildOfNearestSmallerRank ==
    pc = "done" =>
        \A i \in DOMAIN ret.entries :
            Forest(ret.entries)[i].parent = NearestSmallerRank(ret.entries, i)

\* the calls of processed whose box has an area above min_area, in order
RECURSIVE LargeCalls(_)
LargeCalls(done) ==
    IF Len(done) = 0 THEN <<>>
    ELSE LET b == done[1].char.bbox
             w == IF b[3] >= b[1] THEN b[3] - b[1] ELSE b[1] - b[3]
             h == IF b[4] >= b[2] THEN b[4] - b[2] ELSE b[2] - b[4]
         IN  (IF w * h > min_area THEN <<done[1]>> ELSE <<>>) \o LargeCalls(Tail(done))

\* C14: after any sequence of process_char calls, large_chars holds a record for
\* exactly the characters whose box area |x1-x0| * |y1-y0| is strictly greater
\* than min_area; lines_with_large_chars has no entry twice; "[Page p] text" is
\* in it if and only if a record of large_chars has page p and line_text text; so
\* there are never more lines than large characters.
C14_LargeCharsAndLines ==
    LET large == LargeCalls(processed)
    IN  /\ Len(large_chars) = Len(large)
        /\ \A i \in DOMAIN large :
               /\ large_chars[i].bbox = large[i].char.bbox
               /\ large_chars[i].char = large[i].char.text
               /\ large_chars[i].page = large[i].page
               /\ large_chars[i].line_text = large[i].line_text
        /\ \A i, j \in DOMAIN lines_with_large_chars :
               i # j => lines_with_large_chars[i] # lines_with_large_chars[j]
        /\ \A p \in PageNums, text \in LineTexts :
               (LineEntry(p, text) \in Range(lines_with_large_chars))
                   <=> \E i \in DOMAIN large_chars :
                           large_chars[i].page = p /\ large_chars[i].line_text = text
        /\ \A i \in DOMAIN lines_with_large_chars :
               \E p \in PageNums, text \in LineTexts :
                   lines_with_large_chars[i] = LineEntry(p, text)
        /\ Len(lines_with_large_chars) <= Len(large_chars)

\* two large characters of one line, a character at the threshold that is not
\* recorded, and a line that is not listed
C14_Witness ==
    /\ Len(processed) = 3
    /\ Len(large_chars) = 2
    /\ Len(lines_with_large_chars) = 1
    /\ \E i \in DOMAIN processed :
           /\ CalculateBboxArea(processed[i].char.bbox) = min_area
           /\ LineEntry(processed[i].page, processed[i].line_text)
                  \notin Range(lines_with_large_chars)

\* what is left of a line's text once its whole trailing number (every digit of
\* the final run) is cut off and the runs of leader characters are removed
TitleLeft(text) ==
    LET number == TrailingNumber(text)
        before == SubSeq(text, 1, Len(Strip(text)) - Len(number))
    IN  Strip(RemoveLeaders(Strip(before)))

\* C15: _parse_toc_line yields no candidate for a line whose trailing number is
\* outside 1..1000, nor for one of which no title is left once the whole
\* trailing number and the leader characters are stripped; a candidate it
\* yields has a page number in 1..1000 and, as its title, the non-empty text
\* that is left, with no digit of the trailing number in it.
C15_ParsedLineIsPlausible ==
    Returned("_parse_toc_line") =>
        LET text == LineText(args)
            number == TrailingNumber(text)
            r == returned.value
        IN  /\ (number # <<>> /\ ParseInt(number) \notin 1..1000) => r = None
            /\ (number # <<>> /\ TitleLeft(text) = <<>>) => r = None
            /\ r # None =>
                   /\ r.entry.title # <<>>
                   /\ r.entry.page_number \in 1..1000
                   /\ r.entry.title = TitleLeft(text)

\* the leaf items below nodes in depth-first order, each with the number of
\* lists it is nested in below a list at depth
RECURSIVE LeafItems(_, _)
LeafItems(nodes, depth) ==
    IF Len(nodes) = 0 THEN <<>>
    ELSE (IF nodes[1].kind = "list" THEN LeafItems(nodes[1].items, depth + 1)
          ELSE <<[item |-> nodes[1], depth |-> depth]>>)
         \o LeafItems(Tail(nodes), depth)

\* C16: the outline traversal emits exactly one candidate per leaf item, in
\* depth-first order, with a level that goes up by exactly one per nesting of
\* sub-lists; an item whose page cannot be resolved still yields its candidate,
\* with its title and no page; so no item's failure removes or reorders a
\* candidate.
C16_OneCandidatePerLeaf ==
    Returned("process_outline_item") =>
        LET entries == returned.value
            leaves == LeafItems(args, 0)
        IN  /\ Len(entries) = Len(leaves)
            /\ \A k \in DOMAIN leaves :
                   /\ entries[k].title = leaves[k].item.title
                   /\ entries[k].level - entries[1].level
                          = leaves[k].depth - leaves[1].depth
                   /\ (~leaves[k].item.has_page \/ ~leaves[k].item.resolvable)
                          => entries[k].page_number = NoneInt

\* the running level at line i of a page whose lines start at the left edges
\* xs, by the rule of the claim
RECURSIVE RunningLevel(_, _)
RunningLevel(xs, i) ==
    IF i = 1 THEN 0
    ELSE LET before == RunningLevel(xs, i - 1)
         IN  IF xs[i] > xs[i - 1] + 5 THEN before + 1
             ELSE IF xs[i] < xs[i - 1] - 5
             THEN (IF before = 0 THEN 0 ELSE before - 1)
             ELSE before

\* the lines of a page that yield a candidate: those ending in a number or
\* carrying dot leaders
Emitting(lines) == {i \in DOMAIN lines : LayoutLineEntry(lines[i], 0) # <<>>}
\* the k-th smallest member of a set of numbers
RECURSIVE Nth(_, _)
Nth(S, k) ==
    LET least == CHOOSE i \in S : \A j \in S : i <= j
    IN  IF k = 1 THEN least ELSE Nth(S \ {least}, k - 1)

\* C17: on a page the running level of the layout strategy starts at 0, goes up
\* by one at a line more than 5 right of the line before, down by one but not
\* below 0 at a line more than 5 left of it, and stays otherwise, the line
\* before being the preceding line whether or not it gave a candidate; each
\* candidate carries the running level of its line, which is >= 0, and the
\* levels of the candidates of two consecutive lines differ by at most one.
C17_RunningLevel ==
    Returned("_extract_via_layout_analysis") =>
        LET entries == returned.value
            lines == GroupWordsIntoLines(args)
            xs == [i \in DOMAIN lines |-> lines[i][1].x0]
            emitting == Emitting(lines)
        IN  /\ Len(entries) = Cardinality(emitting)
            /\ \A k \in DOMAIN entries :
                   /\ entries[k].level = RunningLevel(xs, Nth(emitting, k))
                   /\ entries[k].level >= 0
            /\ \A k \in DOMAIN entries :
                   (k > 1 /\ Nth(emitting, k) = Nth(emitting, k - 1) + 1)
                       => Abs(entries[k].level - entries[k - 1].level) <= 1

\* a page of three lines at the left edges 12, 0 and 6, the middle one without
\* a candidate: the outdent at level 0 leaves 0, the indent after it gives 1
C17_Witness ==
    /\ Returned("_extract_via_layout_analysis")
    /\ [i \in DOMAIN args |-> args[i].x0] = <<12, 0, 6>>
    /\ args[2].text = <<"a">>
    /\ [k \in DOMAIN returned.value |-> returned.value[k].level] = <<0, 1>>

\* the distinct left edges of the grouped lines of a page: the x0 of the first
\* word of each line
LineLeftEdges(words) ==
    LET lines == GroupWordsIntoLines(words)
    IN  {lines[k][1].x0 : k \in DOMAIN lines}

\* the candidates of the pages from the i-th on (of the first 20) whose lines
\* have at least 4 distinct left edges
RECURSIVE FromIndentedPages(_, _)
FromIndentedPages(pages, i) ==
    IF i > Len(pages) \/ i > 20 THEN <<>>
    ELSE (IF Cardinality(LineLeftEdges(pages[i].words)) >= 4
          THEN LayoutPage(pages[i].words) ELSE <<>>)
         \o FromIndentedPages(pages, i + 1)

\* C18: the candidates of the layout strategy come from exactly the pages whose
\* grouped lines have at least 4 distinct left edges; a page with fewer gives
\* none, so the strategy has no result when no page has 4.
C18_FourLeftEdges ==
    LET expected == FromIndentedPages(pdf.pages, 1)
        got == outcome[LayoutAnalysis]
    IN  /\ got.kind = "TOCResult" => got.entries = expected
        /\ (got.kind = "None" /\ pdf.opened /\ pdfplumber_available) => expected = <<>>

\* C19: the step that filters and returns leaves method_used, confidence_score
\* and metadata of the selected result as they were; when every candidate is
\* below min_confidence the result returned has no entries, yet a method other
\* than "none" and a confidence_score above 0.
C19_FilterWritesEntriesOnly ==
    [][ (pc = "select" /\ pc' = "done" /\ best_result # None) =>
            /\ ret'.method_used = best_result.method_used
            /\ ret'.confidence_score = best_result.confidence_score
            /\ ret'.metadata = best_result.metadata
            /\ (\A i \in DOMAIN best_result.entries :
                    best_result.entries[i].confidence < min_confidence)
                   => /\ ret'.entries = <<>>
                      /\ ret'.method_used # "none"
                      /\ ret'.confidence_score > 0 ]_vars

\* a result whose candidates all fell below min_confidence was returned
C19_Witness ==
    /\ pc = "done"
    /\ Results # {}
    /\ ret.entries = <<>>
    /\ ret.method_used # "none"
    /\ ret.confidence_score > 0

=============================================================================
